---- MODULE Spec2Model ----
(***************************************************************************)
(* php-doc-gen (src/src/main.rs): parse_php_file extracts methods with a   *)
(* regular expression, generate_bulk_documentation asks the service for    *)
(* one docblock per method and reconciles the count of the answer,         *)
(* update_php_file inserts the docblocks with a running offset.            *)
(*                                                                         *)
(* Text is a sequence of one-character strings.  The alphabet is ASCII, so *)
(* one character is one byte and a byte offset is an index minus one.      *)
(* Option<T> is a sequence: None is << >> and Some(x) is << x >>.          *)
(***************************************************************************)
EXTENDS Integers, Sequences, FiniteSets, TLC

\* ------------------------------------------------------------------ bounds
\* method chunks in a generated source file
MaxMethods == 2
\* method chunks in a source file of a whole run
MaxRunMethods == 2
\* pieces concatenated into a response text
MaxPieces == 5
\* pieces concatenated into the response text of a whole run
MaxRunPieces == 3
\* methods handed to generate_bulk_documentation alone
MaxN == 4
\* methods handed to update_php_file alone
MaxUpd == 2
\* length of the buffer update_php_file alone rewrites
BufLen == 4

\* --------------------------------------------------------------- characters
None == << >>
Some(x) == << x >>

\* \s of the regex and char::is_whitespace of str::trim, on the alphabet used
WS == {" ", "\n", "\t"}

\* \w of the regex, on the alphabet used
WordChars ==
  {"a", "b", "c", "d", "e", "f", "g", "h", "i", "j", "k", "l", "m", "n", "o",
   "p", "q", "r", "s", "t", "u", "v", "w", "x", "y", "z", "C", "G", "_"}

KwFunction == <<"f", "u", "n", "c", "t", "i", "o", "n">>
KwPublic == <<"p", "u", "b", "l", "i", "c">>
KwProtected == <<"p", "r", "o", "t", "e", "c", "t", "e", "d">>
KwPrivate == <<"p", "r", "i", "v", "a", "t", "e">>
DocOpen == <<"/", "*", "*">>
DocClose == <<"*", "/">>

\* let x = v in F(x), with v computed once before F is entered
Bind(v, F(_)) == CHOOSE r \in {F(x) : x \in {v}} : TRUE

\* the literal lit occurs in s at index i
Lit(s, i, lit) ==
  /\ i >= 1
  /\ i + Len(lit) - 1 <= Len(s)
  /\ \A k \in 1..Len(lit) : s[i + k - 1] = lit[k]

\* greedy \s* from index i: the first index at or after i that is not whitespace
RECURSIVE SkipWs(_, _)
SkipWs(s, i) ==
  IF i <= Len(s) /\ s[i] \in WS THEN SkipWs(s, i + 1) ELSE i

\* greedy \w* from index i
RECURSIVE SkipWord(_, _)
SkipWord(s, i) ==
  IF i <= Len(s) /\ s[i] \in WordChars THEN SkipWord(s, i + 1) ELSE i

\* str::trim
RECURSIVE TrimEnd(_)
TrimEnd(s) ==
  IF Len(s) > 0 /\ s[Len(s)] \in WS THEN TrimEnd(SubSeq(s, 1, Len(s) - 1)) ELSE s

Trim(s) == TrimEnd(SubSeq(s, SkipWs(s, 1), Len(s)))

\* ------------------------------------------------- the regex of parse_php_file
\* (?ms)(/\*\*.*?\*/\s*)?\s*(public|protected|private)?\s*function\s+(\w+)\s*
\*      \((.*?)\)\s*\{(.*?)\n\s*\}
\* matched as the regex engine does: leftmost start, then the alternatives of
\* each quantifier in priority order (lazy: shortest first, greedy: longest
\* first).  A failed match is 0 for a position and NoMatch for a capture.

\* the brace index at which  \n\s*\}\s*$  matches when the \n is at index n:
\* the terminator written to demand a brace alone on its line
LoneBraceAfterNewline(s, n) ==
  IF n <= Len(s) /\ s[n] = "\n"
  THEN Bind(SkipWs(s, n + 1), LAMBDA c :
         IF /\ c <= Len(s)
            /\ s[c] = "}"
            /\ \A k \in (c + 1)..Len(s) :
                 (\A j \in (c + 1)..k : s[j] # "\n") => s[k] \in WS
         THEN c ELSE 0)
  ELSE 0

\* the brace index at which  \n\s*\}  matches when the \n is at index n, else 0
BraceAfterNewline(s, n) ==
  IF n <= Len(s) /\ s[n] = "\n"
  THEN Bind(SkipWs(s, n + 1), LAMBDA c :
         IF c <= Len(s) /\ s[c] = "}" THEN c ELSE 0)
  ELSE 0

\* (.*?)\n\s*\}  from index b (right after the opening brace): the index of the
\* first newline at or after b from which  \n\s*\}  matches, else 0
RECURSIVE BodyEnd(_, _)
BodyEnd(s, n) ==
  IF n > Len(s) THEN 0
  ELSE IF BraceAfterNewline(s, n) # 0 THEN n
  ELSE BodyEnd(s, n + 1)

\* \s*\{(.*?)\n\s*\}  right after a closing parenthesis at index r: the index
\* of the opening brace when the rest of the pattern matches, else 0
OpenBraceAfter(s, r) ==
  Bind(SkipWs(s, r + 1), LAMBDA o :
    IF o <= Len(s) /\ s[o] = "{" /\ BodyEnd(s, o + 1) # 0 THEN o ELSE 0)

\* (.*?)\)...  from index a (right after the opening parenthesis): the index of
\* the first closing parenthesis from which the rest of the pattern matches
RECURSIVE ParamsEnd(_, _)
ParamsEnd(s, r) ==
  IF r > Len(s) THEN 0
  ELSE IF s[r] = ")" /\ OpenBraceAfter(s, r) # 0 THEN r
  ELSE ParamsEnd(s, r + 1)

\* (public|protected|private)? at index q: the keyword matched there, or << >>
VisibilityAt(s, q) ==
  IF Lit(s, q, KwPublic) THEN KwPublic
  ELSE IF Lit(s, q, KwProtected) THEN KwProtected
  ELSE IF Lit(s, q, KwPrivate) THEN KwPrivate
  ELSE << >>

NoMatch == [ok |-> FALSE]

\* function\s+(\w+)\s*\((.*?)\)\s*\{(.*?)\n\s*\}  with the keyword at index fn
\* groups are << first index, index after the last >>
FromFunction(s, fn) ==
  IF ~Lit(s, fn, KwFunction) THEN NoMatch
  ELSE
    Bind(SkipWs(s, fn + Len(KwFunction)), LAMBDA n1 :
    Bind(SkipWord(s, n1), LAMBDA n2 :
    Bind(SkipWs(s, n2), LAMBDA lp :
      IF n1 = fn + Len(KwFunction) \/ n2 = n1 \/ lp > Len(s) THEN NoMatch
      ELSE IF s[lp] # "(" THEN NoMatch
      ELSE
        Bind(ParamsEnd(s, lp + 1), LAMBDA rp :
          IF rp = 0 THEN NoMatch
          ELSE
            Bind(OpenBraceAfter(s, rp), LAMBDA ob :
            Bind(BodyEnd(s, ob + 1), LAMBDA nl :
            Bind(BraceAfterNewline(s, nl), LAMBDA cb :
              [ok |-> TRUE, end |-> cb + 1,
               g3 |-> <<n1, n2>>, g4 |-> <<lp + 1, rp>>,
               g5 |-> <<ob + 1, nl>>])))))))

\* \s*(public|protected|private)?\s*function...  from index p
Core(s, p) ==
  Bind(SkipWs(s, p), LAMBDA q :
  Bind(VisibilityAt(s, q), LAMBDA vis :
  Bind(FromFunction(s, SkipWs(s, q + Len(vis))), LAMBDA withVis :
    IF vis # << >> /\ withVis.ok
    THEN withVis @@ [g2 |-> <<q, q + Len(vis)>>]
    ELSE Bind(FromFunction(s, q), LAMBDA noVis :
           IF noVis.ok THEN noVis @@ [g2 |-> << >>] ELSE NoMatch))))

\* (/\*\*.*?\*/\s*)  opened at index p, its closing  */  tried from index e on:
\* the first e at which the group and then the rest of the pattern match
RECURSIVE DocEnd(_, _)
DocEnd(s, e) ==
  IF e + 1 > Len(s) THEN 0
  ELSE IF Lit(s, e, DocClose) /\ Core(s, SkipWs(s, e + 2)).ok THEN e
  ELSE DocEnd(s, e + 1)

\* the whole pattern anchored at index p
MatchAt(s, p) ==
  Bind(IF Lit(s, p, DocOpen) THEN DocEnd(s, p + 3) ELSE 0, LAMBDA e :
    IF e # 0
    THEN Bind(SkipWs(s, e + 2), LAMBDA g1end :
           Core(s, g1end) @@ [start |-> p, g1 |-> <<p, g1end>>])
    ELSE Bind(Core(s, p), LAMBDA c :
           IF c.ok THEN c @@ [start |-> p, g1 |-> << >>] ELSE NoMatch))

\* the leftmost match starting at or after index p
FindFrom(s, p) ==
  Bind({b \in p..Len(s) : MatchAt(s, b).ok}, LAMBDA starts :
    IF starts = {} THEN NoMatch
    ELSE MatchAt(s, CHOOSE b \in starts : \A c \in starts : b <= c))

\* method_regex.captures_iter(&contents).collect(): the successive
\* non-overlapping matches, each searched from the end of the one before
RECURSIVE CapturesFrom(_, _)
CapturesFrom(s, p) ==
  Bind(FindFrom(s, p), LAMBDA m :
    IF m.ok THEN <<m>> \o CapturesFrom(s, m.end) ELSE << >>)

Captures(s) == CapturesFrom(s, 1)

Group(s, g) == SubSeq(s, g[1], g[2] - 1)

\* the closure of parse_php_file that builds one Method from one capture
MethodOf(s, cap) ==
  [visibility |-> IF cap.g2 = << >> THEN KwPublic ELSE Group(s, cap.g2),
   name |-> Group(s, cap.g3),
   parameters |-> Group(s, cap.g4),
   body |-> Trim(Group(s, cap.g5)),
   docblock |-> IF cap.g1 = << >> THEN None ELSE Some(Group(s, cap.g1)),
   start_position |-> cap.start - 1]

\* captures.into_iter().filter_map(..).map(..).collect()
MethodsOf(s, caps) == [i \in DOMAIN caps |-> MethodOf(s, caps[i])]

ParsePhp(s) == MethodsOf(s, Captures(s))

\* ------------------------------------------- generate_bulk_documentation
Delim == <<"-", "-", "-">>
Placeholder ==
  <<"/", "*", "*", " ", "G", "e", "n", "e", "r", "a", "t", "e", "d", " ",
    "d", "o", "c", "b", "l", "o", "c", "k", " ", "*", "/">>

\* content.split("---"): cut at each occurrence found left to right; cur is the
\* segment collected so far
RECURSIVE SplitFrom(_, _, _)
SplitFrom(s, i, cur) ==
  IF i > Len(s) THEN <<cur>>
  ELSE IF Lit(s, i, Delim) THEN <<cur>> \o SplitFrom(s, i + Len(Delim), << >>)
  ELSE SplitFrom(s, i + 1, Append(cur, s[i]))

Split(s) == SplitFrom(s, 1, << >>)

\* .map(|s| s.trim().to_string()).filter(|s| !s.is_empty()).collect()
Segments(content) ==
  SelectSeq([i \in 1..Len(Split(content)) |-> Trim(Split(content)[i])],
            LAMBDA t : t # << >>)

\* the adjustment of the docblocks to the number of methods, written without
\* the take(methods.len()) of the longer list
ReconcilePadOnly(segs, n) ==
  IF Len(segs) < n
  THEN segs \o [i \in 1..(n - Len(segs)) |-> Placeholder]
  ELSE segs

\* the adjustment of the docblocks to the number of methods
Reconcile(segs, n) ==
  IF Len(segs) # n
  THEN IF Len(segs) < n
       THEN segs \o [i \in 1..(n - Len(segs)) |-> Placeholder]
       ELSE SubSeq(segs, 1, n)
  ELSE segs

\* reqwest::StatusCode::is_success
IsSuccess(status) == status >= 200 /\ status <= 299

\* the zip loop, written with the docblocks taken from the end
ZipReversed(ms, ds) ==
  [i \in 1..Len(ms) |->
     IF i <= Len(ds) THEN [ms[i] EXCEPT !.docblock = Some(ds[Len(ds) + 1 - i])]
     ELSE ms[i]]

\* for (method, docblock) in updated_methods.iter_mut().zip(docblocks.iter())
Zip(ms, ds) ==
  [i \in 1..Len(ms) |->
     IF i <= Len(ds) THEN [ms[i] EXCEPT !.docblock = Some(ds[i])] ELSE ms[i]]

\* a write of piece over the bytes at offset pos instead of an insertion
OverwriteStr(s, pos, piece) ==
  SubSeq(s, 1, pos) \o piece \o SubSeq(s, pos + Len(piece) + 1, Len(s))

\* String::insert_str at byte offset pos
InsertStr(s, pos, piece) ==
  SubSeq(s, 1, pos) \o piece \o SubSeq(s, pos + 1, Len(s))

\* format!("\n{}\n", docblock)
Framed(d) == <<"\n">> \o d \o <<"\n">>

\* ------------------------------------------------------------------ inputs
\* Source files are built from method chunks: what stands before the method (a
\* doc-comment, a class with its own doc-comment, both, or nothing), a
\* signature with or without visibility, and a body: empty, with a line
\* "} else {", with a brace at the end of a line of code, or on one line.
DocPrefix == <<"/", "*", "*", "d", "*", "/", "\n">>
ClassPrefix ==
  <<"/", "*", "*", "c", "*", "/", "\n", "c", "l", "a", "s", "s", " ", "C",
    "{", "\n">>
Sig1 ==
  <<"p", "u", "b", "l", "i", "c", " ", "f", "u", "n", "c", "t", "i", "o", "n",
    " ", "f", "(", ")">>
Sig2 == <<"f", "u", "n", "c", "t", "i", "o", "n", " ", "g", "(", "a", ")">>
Body1 == <<"{", "\n", "}", "\n">>
Body2 ==
  <<"{", "\n", "i", "f", "(", "a", ")", "{", "\n", "}", " ", "e", "l", "s",
    "e", " ", "{", "\n", "b", ";", "\n", "}", "\n", "}", "\n">>
Body3 == <<"{", "\n", "b", ";", " ", "}", "\n", "}", "\n">>
Body4 == <<"{", " ", "}", "\n">>

Prefixes == {<< >>, DocPrefix, ClassPrefix, ClassPrefix \o DocPrefix}
Bodies == {Body1, Body2, Body3, Body4}

Chunks ==
  {p \o Sig1 \o b : p \in Prefixes, b \in Bodies} \cup {Sig2 \o Body1}
RunChunks == {p \o Sig1 \o Body1 : p \in Prefixes} \cup {Sig2 \o Body3}

\* the texts made of at most n chunks
RECURSIVE Concats(_, _)
Concats(parts, n) ==
  IF n = 0 THEN {<< >>}
  ELSE LET shorter == Concats(parts, n - 1)
       IN shorter \cup {t \o c : t \in shorter, c \in parts}

Files == Concats(Chunks, MaxMethods)
RunFiles == Concats(RunChunks, MaxRunMethods)

\* Response texts are built from the delimiter, dashes, blanks and letters.
Pieces == {Delim, <<"-">>, <<" ">>, <<"a">>, <<"b">>}
RunPieces == {Delim, <<"a">>, <<"b", " ">>}
Contents == Concats(Pieces, MaxPieces)
RunContents == Concats(RunPieces, MaxRunPieces)

Statuses == {200, 404, 429, 500}
NoResponse == [kind |-> "none", status |-> 0, body |-> "none", text |-> << >>]
TransportError ==
  [kind |-> "transport_error", status |-> 0, body |-> "none", text |-> << >>]

\* the answers that carry no text, or carry one under a status that is not 200
OtherResponses ==
  {TransportError}
  \cup {[kind |-> "http", status |-> st, body |-> b, text |-> << >>] :
          st \in Statuses, b \in {"not_json", "no_text"}}
  \cup {[kind |-> "http", status |-> st, body |-> "text", text |-> t] :
          st \in Statuses \ {200}, t \in {<<"a">>, <<"a">> \o Delim \o <<"b">>}}

Responses ==
  OtherResponses
  \cup {[kind |-> "http", status |-> 200, body |-> "text", text |-> t] :
          t \in Contents}

RunResponses ==
  OtherResponses
  \cup {[kind |-> "http", status |-> 200, body |-> "text", text |-> t] :
          t \in RunContents}

\* ------------------------------------------------------------------- state
VARIABLES
  hasArg,           \* args.len() >= 2
  apiKeySet,        \* CLAUDE_API_KEY is in the environment
  readable,         \* fs::read_to_string of the source file succeeds
  original,         \* the source file when the run starts
  file,             \* the source file on disk
  pc,               \* the position of the run
  err,              \* the AppError the run returned
  captures,         \* captures of parse_php_file
  methods,          \* methods of main
  sent,             \* the requests posted so far
  inflight,         \* requests posted and not answered yet
  response,         \* response of generate_bulk_documentation
  docblocks,        \* docblocks of main
  updated_methods,  \* updated_methods of main, methods of update_php_file
  contents,         \* contents of update_php_file
  offset,           \* offset of update_php_file
  idx,              \* the index of the loop of update_php_file
  inserted,         \* the insert_str calls made so far: position and length
  fileReads,        \* reads of the source file so far
  fileWrites        \* writes of the source file so far

vars ==
  <<hasArg, apiKeySet, readable, original, file, pc, err, captures, methods,
    sent, inflight, response, docblocks, updated_methods, contents, offset,
    idx, inserted, fileReads, fileWrites>>

envVars == <<hasArg, apiKeySet, readable, original>>
parseVars == <<captures, methods>>
netVars == <<sent, inflight, response, docblocks>>
updVars == <<contents, offset, idx, inserted>>
ioVars == <<file, fileReads, fileWrites>>

Fresh ==
  /\ err = "none"
  /\ captures = << >>
  /\ methods = << >>
  /\ sent = << >>
  /\ inflight = 0
  /\ response = NoResponse
  /\ docblocks = << >>
  /\ updated_methods = << >>
  /\ contents = << >>
  /\ offset = 0
  /\ idx = 0
  /\ inserted = << >>
  /\ fileReads = 0
  /\ fileWrites = 0

\* a run of main on one source file
Init ==
  /\ hasArg \in BOOLEAN
  /\ apiKeySet \in BOOLEAN
  /\ readable \in BOOLEAN
  /\ file \in RunFiles
  /\ original = file
  /\ pc = "start"
  /\ Fresh

\* main: the argument check
CheckArgs ==
  /\ pc = "start"
  /\ pc' = IF hasArg THEN "parse" ELSE "exit1"
  /\ UNCHANGED <<envVars, err, parseVars, netVars, updated_methods, updVars,
                 ioVars>>

\* parse_php_file, and the ? of main on its result
ParseFile ==
  /\ pc = "parse"
  /\ IF readable
     THEN /\ fileReads' = fileReads + 1
          /\ captures' = Captures(file)
          /\ methods' = MethodsOf(file, captures')
          /\ pc' = "env"
          /\ err' = err
     ELSE /\ pc' = "failed"
          /\ err' = "Io"
          /\ UNCHANGED <<fileReads, captures, methods>>
  /\ UNCHANGED <<envVars, netVars, updated_methods, updVars, file, fileWrites>>

\* main: env::var("CLAUDE_API_KEY"), written without the ?
ReadEnvUnchecked ==
  /\ pc = "env"
  /\ pc' = "send"
  /\ UNCHANGED <<envVars, err, parseVars, netVars, updated_methods, updVars,
                 ioVars>>

\* main: env::var("CLAUDE_API_KEY")?
ReadEnv ==
  /\ pc = "env"
  /\ IF apiKeySet
     THEN pc' = "send" /\ err' = err
     ELSE pc' = "failed" /\ err' = "Env"
  /\ UNCHANGED <<envVars, parseVars, netVars, updated_methods, updVars, ioVars>>

\* generate_bulk_documentation up to .send(): one prompt for all the methods.
\* Of the request only the number of methods it lists is kept; the progress
\* bar and the console output are left out throughout.
SendRequest ==
  /\ pc = "send"
  /\ sent' = Append(sent, [count |-> Len(methods)])
  /\ inflight' = inflight + 1
  /\ pc' = "await"
  /\ UNCHANGED <<envVars, err, parseVars, response, docblocks, updated_methods,
                 updVars, ioVars>>

\* the error generate_bulk_documentation returns for a response, "none" when
\* it returns Ok; written without the status check
ResponseErrorIgnoringStatus(r) ==
  IF r.kind = "transport_error" THEN "Request"
  ELSE IF r.body = "not_json" THEN "Request"
  ELSE IF r.body = "no_text" THEN "ApiResponse"
  ELSE "none"

\* the error generate_bulk_documentation returns for a response, "none" when
\* it returns Ok
ResponseError(r) ==
  IF r.kind = "transport_error" THEN "Request"
  ELSE IF IsSuccess(r.status)
  THEN IF r.body = "not_json" THEN "Request"
       ELSE IF r.body = "no_text" THEN "ApiResponse"
       ELSE "none"
  ELSE "ApiResponse"

\* generate_bulk_documentation from .await? on, written with a retry of the
\* request on HTTP 429
ReceiveRetrying(r) ==
  /\ pc = "await"
  /\ inflight' = inflight - 1
  /\ response' = r
  /\ IF r.kind = "http" /\ r.status = 429
     THEN pc' = "send" /\ err' = err /\ docblocks' = docblocks
     ELSE IF ResponseError(r) = "none"
     THEN /\ docblocks' = Reconcile(Segments(r.text), Len(methods))
          /\ pc' = "attach"
          /\ err' = err
     ELSE /\ pc' = "failed"
          /\ err' = ResponseError(r)
          /\ docblocks' = docblocks
  /\ UNCHANGED <<envVars, parseVars, sent, updated_methods, updVars, ioVars>>

\* generate_bulk_documentation from .await? on, and the ? of main on its result
Receive(r) ==
  /\ pc = "await"
  /\ inflight' = inflight - 1
  /\ response' = r
  /\ IF ResponseError(r) = "none"
     THEN /\ docblocks' = Reconcile(Segments(r.text), Len(methods))
          /\ pc' = "attach"
          /\ err' = err
     ELSE /\ pc' = "failed"
          /\ err' = ResponseError(r)
          /\ docblocks' = docblocks
  /\ UNCHANGED <<envVars, parseVars, sent, updated_methods, updVars, ioVars>>

\* main: the clone of methods and the zip loop
AttachDocblocks ==
  /\ pc = "attach"
  /\ updated_methods' = Zip(methods, docblocks)
  /\ pc' = "update_read"
  /\ UNCHANGED <<envVars, err, parseVars, netVars, updVars, ioVars>>

\* update_php_file up to the loop
UpdateRead ==
  /\ pc = "update_read"
  /\ IF readable
     THEN /\ contents' = file
          /\ offset' = 0
          /\ idx' = 1
          /\ fileReads' = fileReads + 1
          /\ pc' = "update_loop"
          /\ err' = err
     ELSE /\ pc' = "failed"
          /\ err' = "Io"
          /\ UNCHANGED <<contents, offset, idx, fileReads>>
  /\ UNCHANGED <<envVars, parseVars, netVars, updated_methods, inserted, file,
                 fileWrites>>

\* offset += docblock.len(), written without the two newlines
AdvanceNoNewlines(off, docblock) == off + Len(docblock)

\* offset += docblock.len() + 2
Advance(off, docblock) == off + Len(docblock) + 2

\* one iteration of the loop of update_php_file, written with a method without
\* docblock handled as one with an empty docblock
UpdateStepUnconditional ==
  /\ pc = "update_loop"
  /\ idx <= Len(updated_methods)
  /\ LET method == updated_methods[idx]
         insert_position == method.start_position + offset
         docblock == IF method.docblock = None THEN << >>
                     ELSE method.docblock[1]
     IN IF insert_position > Len(contents)
        THEN /\ pc' = "panic"
             /\ UNCHANGED <<contents, offset, idx, inserted>>
        ELSE /\ contents' =
                  InsertStr(contents, insert_position, Framed(docblock))
             /\ offset' = Advance(offset, docblock)
             /\ inserted' =
                  Append(inserted, [pos |-> insert_position,
                                    len |-> Len(Framed(docblock))])
             /\ idx' = idx + 1
             /\ pc' = pc
  /\ UNCHANGED <<envVars, err, parseVars, netVars, updated_methods, ioVars>>

\* one iteration of the loop of update_php_file; insert_str panics beyond the
\* end of the buffer
UpdateStep ==
  /\ pc = "update_loop"
  /\ idx <= Len(updated_methods)
  /\ LET method == updated_methods[idx]
         insert_position == method.start_position + offset
     IN IF method.docblock = None
        THEN /\ idx' = idx + 1
             /\ UNCHANGED <<pc, contents, offset, inserted>>
        ELSE IF insert_position > Len(contents)
        THEN /\ pc' = "panic"
             /\ UNCHANGED <<contents, offset, idx, inserted>>
        ELSE LET docblock == method.docblock[1]
             IN /\ contents' =
                     InsertStr(contents, insert_position, Framed(docblock))
                /\ offset' = Advance(offset, docblock)
                /\ inserted' =
                     Append(inserted, [pos |-> insert_position,
                                       len |-> Len(Framed(docblock))])
                /\ idx' = idx + 1
                /\ pc' = pc
  /\ UNCHANGED <<envVars, err, parseVars, netVars, updated_methods, ioVars>>

\* fs::write(file_path, contents)? and the return to main; a failed write
\* leaves the file as it was or truncated
UpdateWrite(outcome) ==
  /\ pc = "update_loop"
  /\ idx > Len(updated_methods)
  /\ IF outcome = "ok"
     THEN /\ file' = contents
          /\ fileWrites' = fileWrites + 1
          /\ pc' = "done"
          /\ err' = err
     ELSE /\ file' = IF outcome = "truncated" THEN << >> ELSE file
          /\ fileWrites' = fileWrites
          /\ pc' = "failed"
          /\ err' = "Io"
  /\ UNCHANGED <<envVars, parseVars, netVars, updated_methods, updVars,
                 fileReads>>

WriteOutcomes == {"ok", "denied", "truncated"}

Next ==
  \/ CheckArgs
  \/ ParseFile
  \/ ReadEnv
  \/ SendRequest
  \/ pc = "await" /\ \E r \in RunResponses : Receive(r)
  \/ AttachDocblocks
  \/ UpdateRead
  \/ UpdateStep
  \/ \E outcome \in WriteOutcomes : UpdateWrite(outcome)

Spec == Init /\ [][Next]_vars

\* parse_php_file alone, on every generated source file
InitParse ==
  /\ hasArg = TRUE
  /\ apiKeySet = TRUE
  /\ readable \in BOOLEAN
  /\ file \in Files
  /\ original = file
  /\ pc = "parse"
  /\ Fresh

NextParse == ParseFile

SpecParse == InitParse /\ [][NextParse]_vars

\* generate_bulk_documentation alone, on any number of methods
SomeMethod(i) ==
  [visibility |-> KwPublic, name |-> <<"f">>, parameters |-> << >>,
   body |-> << >>, docblock |-> None, start_position |-> i - 1]

InitGenerate ==
  /\ hasArg = TRUE
  /\ apiKeySet = TRUE
  /\ readable = TRUE
  /\ file = << >>
  /\ original = file
  /\ pc = "send"
  /\ err = "none"
  /\ captures = << >>
  /\ \E n \in 0..MaxN : methods = [i \in 1..n |-> SomeMethod(i)]
  /\ sent = << >>
  /\ inflight = 0
  /\ response = NoResponse
  /\ docblocks = << >>
  /\ updated_methods = << >>
  /\ contents = << >>
  /\ offset = 0
  /\ idx = 0
  /\ inserted = << >>
  /\ fileReads = 0
  /\ fileWrites = 0

NextGenerate ==
  \/ SendRequest
  \/ pc = "await" /\ \E r \in Responses : Receive(r)

SpecGenerate == InitGenerate /\ [][NextGenerate]_vars

\* update_php_file alone, on any list of methods
Buffer == [i \in 1..BufLen |-> <<"a", "b", "c", "d", "e", "f", "g", "h">>[i]]
Annotations == {<< >>, <<"x">>, <<"y", "z">>}
UpdMethods ==
  {[visibility |-> KwPublic, name |-> <<"f">>, parameters |-> << >>,
    body |-> << >>, docblock |-> d, start_position |-> p] :
     d \in {None} \cup {Some(a) : a \in Annotations}, p \in 0..(BufLen + 1)}

RECURSIVE SeqsUpTo(_, _)
SeqsUpTo(S, n) ==
  IF n = 0 THEN {<< >>}
  ELSE LET shorter == SeqsUpTo(S, n - 1)
       IN shorter \cup {Append(q, x) : q \in shorter, x \in S}

InitUpdate ==
  /\ hasArg = TRUE
  /\ apiKeySet = TRUE
  /\ readable \in BOOLEAN
  /\ file = Buffer
  /\ original = file
  /\ pc = "update_read"
  /\ err = "none"
  /\ captures = << >>
  /\ methods = << >>
  /\ sent = << >>
  /\ inflight = 0
  /\ response = NoResponse
  /\ docblocks = << >>
  /\ updated_methods \in SeqsUpTo(UpdMethods, MaxUpd)
  /\ contents = << >>
  /\ offset = 0
  /\ idx = 0
  /\ inserted = << >>
  /\ fileReads = 0
  /\ fileWrites = 0

NextUpdate ==
  \/ UpdateRead
  \/ UpdateStep
  \/ \E outcome \in WriteOutcomes : UpdateWrite(outcome)

SpecUpdate == InitUpdate /\ [][NextUpdate]_vars


\* ---------------------------------------------------------------- properties
GenerationFailed(r) ==
  \/ r.kind = "transport_error"
  \/ r.kind = "http" /\ (r.status < 200 \/ r.status > 299 \/ r.body # "text")

GenerationSucceeded(r) ==
  r.kind = "http" /\ r.status >= 200 /\ r.status <= 299 /\ r.body = "text"

\* C1: a successful generate_bulk_documentation returns exactly N items for N
\* methods and K trimmed non-empty segments: item i is segment i for i <= K,
\* the placeholder for K < i <= N, segments beyond N are dropped, and a count
\* mismatch is never an error.
ReconciliationExact ==
  GenerationSucceeded(response) =>
    LET segs == Segments(response.text)
        K == Len(segs)
        N == Len(methods)
    IN /\ pc = "attach"
       /\ err = "none"
       /\ Len(docblocks) = N
       /\ \A i \in 1..N :
            docblocks[i] = IF i <= K THEN segs[i] ELSE Placeholder

\* four methods, two segments: the scenario of the padded tail
ReconciliationWitness ==
  /\ pc = "attach"
  /\ Len(methods) = 4
  /\ Len(Segments(response.text)) = 2
  /\ docblocks[1] # docblocks[2]
  /\ docblocks[4] = Placeholder

\* ---- update_php_file
AllSome(ms) == \A i \in DOMAIN ms : ms[i].docblock # None
AllNone(ms) == \A i \in DOMAIN ms : ms[i].docblock = None
Ascending(ms) ==
  \A i, j \in DOMAIN ms : i < j => ms[i].start_position < ms[j].start_position

\* the sum of l_j + 2 over the methods before method i
RECURSIVE Shift(_, _)
Shift(ms, i) ==
  IF i <= 1 THEN 0
  ELSE Shift(ms, i - 1) + Len(ms[i - 1].docblock[1]) + 2

\* the number of methods with a docblock among the first k
RECURSIVE CountSome(_, _)
CountSome(ms, k) ==
  IF k = 0 THEN 0
  ELSE CountSome(ms, k - 1) + (IF ms[k].docblock = None THEN 0 ELSE 1)

\* the sum of l_j + 2 over the methods with a docblock among the first k
RECURSIVE ShiftSome(_, _)
ShiftSome(ms, k) ==
  IF k = 0 THEN 0
  ELSE ShiftSome(ms, k - 1)
       + (IF ms[k].docblock = None THEN 0 ELSE Len(ms[k].docblock[1]) + 2)

OffsetsInBuffer(ms) ==
  \A i \in DOMAIN ms : ms[i].start_position <= Len(original)

\* C2: with ascending offsets o_i and an annotation of any length l_i on every
\* method, insertion i is made at o_i plus the sum of l_j + 2 over j < i, and
\* in the final buffer annotation i sits right before the original text that
\* began at o_i.
OffsetTrackedInsertion ==
  LET ms == updated_methods
      n == Len(ms)
  IN (AllSome(ms) /\ Ascending(ms) /\ OffsetsInBuffer(ms)) =>
       /\ pc # "panic"
       /\ \A k \in DOMAIN inserted :
            inserted[k].pos = ms[k].start_position + Shift(ms, k)
       /\ (pc = "update_loop" /\ idx > n) \/ pc = "done" =>
            /\ Len(inserted) = n
            /\ \A i \in 1..n :
                 LET o == ms[i].start_position
                     p == o + Shift(ms, i)
                     l == Len(ms[i].docblock[1])
                     nxt == IF i < n THEN ms[i + 1].start_position
                            ELSE Len(original)
                 IN /\ SubSeq(contents, p + 1, p + l + 2)
                         = Framed(ms[i].docblock[1])
                    /\ SubSeq(contents, p + l + 3, p + l + 2 + (nxt - o))
                         = SubSeq(original, o + 1, nxt)

\* two annotations of different lengths, both inserted and written
OffsetTrackedWitness ==
  /\ pc = "done"
  /\ Len(updated_methods) = 2
  /\ AllSome(updated_methods)
  /\ updated_methods[1].start_position = 1
  /\ updated_methods[2].start_position = 3
  /\ Len(updated_methods[1].docblock[1]) = 2
  /\ Len(updated_methods[2].docblock[1]) = 1
  /\ inserted[2].pos = 3 + (2 + 2)

\* C3: with every docblock unset the buffer written back is the buffer read and
\* the offset stays 0, whatever the start positions; in general a method
\* without docblock makes no insertion and leaves the offset alone.
NoOpRewrite ==
  LET ms == updated_methods
  IN idx >= 1 =>
       /\ Len(inserted) = CountSome(ms, idx - 1)
       /\ offset = ShiftSome(ms, idx - 1)
       /\ AllNone(ms) =>
            /\ offset = 0
            /\ inserted = << >>
            /\ contents = original
            /\ pc # "panic"
            /\ pc = "done" => file = original /\ fileWrites = 1

\* two methods without docblock, one of them beyond the end of the buffer
NoOpWitness ==
  /\ pc = "done"
  /\ Len(updated_methods) = 2
  /\ AllNone(updated_methods)
  /\ updated_methods[1].start_position = BufLen + 1
  /\ updated_methods[2].start_position = 0
  /\ fileWrites = 1

\* C4: a failed generation request (transport error, non-2xx status, no
\* content[0].text) ends the run in failed with the file never written; the
\* file is written only after a successful generation, when all N docblocks
\* are attached.
BulkFailureAtomic ==
  /\ GenerationFailed(response) =>
       /\ pc = "failed"
       /\ err \in {"Request", "ApiResponse"}
       /\ file = original
       /\ fileWrites = 0
  /\ (fileWrites > 0 \/ file # original) =>
       /\ GenerationSucceeded(response)
       /\ Len(docblocks) = Len(methods)
       /\ Len(updated_methods) = Len(methods)
       /\ AllSome(updated_methods)
       /\ idx > Len(updated_methods)

\* a run of two methods that failed on a server error
BulkFailureWitness ==
  /\ pc = "failed"
  /\ response.kind = "http"
  /\ response.status = 500
  /\ Len(methods) = 2
  /\ file = original

\* C5: a run that reaches generation posts exactly one request whatever the
\* number of methods, at most one request is in flight, and every non-2xx
\* status, 429 included, fails the run without another request.
SingleRequest ==
  /\ Len(sent) <= 1
  /\ inflight \in {0, 1}
  /\ inflight = 1 <=> pc = "await"
  /\ pc \in {"await", "attach", "update_read", "update_loop", "done"} =>
       Len(sent) = 1 /\ sent[1].count = Len(methods)
  /\ response # NoResponse => Len(sent) = 1
  /\ (response.kind = "http" /\ (response.status < 200 \/ response.status > 299)) =>
       pc = "failed" /\ err = "ApiResponse"

\* a run without any method that was answered 429
SingleRequestWitness ==
  /\ response.kind = "http"
  /\ response.status = 429
  /\ Len(methods) = 0
  /\ Len(sent) = 1
  /\ pc = "failed"

LeadingBlank(s, c) ==
  \A k \in 1..(c - 1) : (\A j \in k..(c - 1) : s[j] # "\n") => s[k] \in WS

\* only whitespace stands after index c on its line
TrailingBlank(s, c) ==
  \A k \in (c + 1)..Len(s) : (\A j \in (c + 1)..k : s[j] # "\n") => s[k] \in WS

AloneOnLine(s, c) == s[c] = "}" /\ LeadingBlank(s, c) /\ TrailingBlank(s, c)
FirstOnLine(s, c) == s[c] = "}" /\ LeadingBlank(s, c)

\* C7 as stated: the body of every matched method ends at the first closing
\* brace after the opening brace that is alone on its line, so a brace that
\* shares its line with other text, as in "} else {", does not end it.
BodyEndsAtLoneBrace ==
  \A i \in DOMAIN captures :
    LET ob == captures[i].g5[1] - 1
        cb == captures[i].end - 1
    IN /\ AloneOnLine(original, cb)
       /\ \A c \in (ob + 1)..(cb - 1) : ~AloneOnLine(original, c)

\* C7: the body of every matched method ends at the first closing brace after
\* the opening brace that is the first non-blank character of its line,
\* whatever follows it on that line and whatever the brace depth; a brace with
\* other text before it on its line does not end the body.
BodyEndsAtLineLeadingBrace ==
  \A i \in DOMAIN captures :
    LET ob == captures[i].g5[1] - 1
        cb == captures[i].end - 1
    IN /\ original[ob] = "{"
       /\ FirstOnLine(original, cb)
       /\ \A c \in (ob + 1)..(cb - 1) : ~FirstOnLine(original, c)
       /\ methods[i].body = Trim(SubSeq(original, ob + 1, cb - 1))

\* a body cut at the brace of a line "} else {", and one that runs past a brace
\* at the end of a line of code
LineLeadingBraceWitness ==
  /\ Len(captures) = 2
  /\ ~TrailingBlank(original, captures[1].end - 1)
  /\ \E c \in captures[2].g5[1]..(captures[2].end - 2) : original[c] = "}"

\* the text is one doc-comment, with nothing but whitespace after its end
OneDocComment(d) ==
  /\ Lit(d, 1, DocOpen)
  /\ \E e \in 4..Len(d) :
       /\ Lit(d, e, DocClose)
       /\ \A k \in 4..(e - 1) : ~Lit(d, k, DocClose)
       /\ \A k \in (e + 2)..Len(d) : d[k] \in WS

\* C8: a docblock set by the extractor is the one doc-comment right before
\* the definition, with no other source text in it, and start_position is the
\* start of that comment.
DocblockIsPrecedingComment ==
  \A i \in DOMAIN methods :
    methods[i].docblock # None => OneDocComment(methods[i].docblock[1])

\* C9: methods leave the extractor in strictly ascending start_position order,
\* order and length stay as extracted up to the rewrite, and in a successful
\* run method i enters the rewrite with docblock i of the reconciled list in
\* place of any docblock it had, so N insertions are made, one per method.
IndexCorrelationState ==
  /\ Ascending(methods)
  /\ Len(methods) = Len(captures)
  /\ \A i \in DOMAIN methods : methods[i].start_position = captures[i].start - 1
  /\ pc \in {"update_read", "update_loop", "done"} =>
       /\ Len(updated_methods) = Len(methods)
       /\ Len(docblocks) = Len(methods)
       /\ \A i \in DOMAIN methods :
            /\ updated_methods[i].docblock = Some(docblocks[i])
            /\ updated_methods[i].start_position = methods[i].start_position
            /\ updated_methods[i].name = methods[i].name
  /\ pc = "done" =>
       /\ Len(inserted) = Len(methods)
       /\ \A i \in DOMAIN methods :
            SubSeq(contents, inserted[i].pos + 1,
                   inserted[i].pos + inserted[i].len) = Framed(docblocks[i])

IndexCorrelation ==
  /\ []IndexCorrelationState
  /\ [][(methods' # methods => pc = "parse")
        /\ (updated_methods' # updated_methods => pc = "attach")]_vars

\* a finished run of two methods, the first with a docblock of its own, that
\* received two different docblocks
IndexCorrelationWitness ==
  /\ pc = "done"
  /\ Len(methods) = 2
  /\ methods[1].docblock # None
  /\ docblocks[1] # docblocks[2]
  /\ docblocks[2] # Placeholder

\* the buffer without the pieces inserted by the first k insert_str calls
RECURSIVE WithoutInserted(_, _, _)
WithoutInserted(buf, log, k) ==
  IF k = 0 THEN buf
  ELSE WithoutInserted(SubSeq(buf, 1, log[k].pos)
                         \o SubSeq(buf, log[k].pos + log[k].len + 1, Len(buf)),
                       log, k - 1)

\* the sum of the lengths of the first k inserted pieces
RECURSIVE InsertedLen(_, _)
InsertedLen(log, k) ==
  IF k = 0 THEN 0 ELSE InsertedLen(log, k - 1) + log[k].len

\* C10: the rewrite only inserts: after each loop step the buffer is as long as
\* the original plus the offset, every insertion position lies within the
\* buffer, no original byte is lost (taking the inserted pieces out gives the
\* original back), and a docblock a method already had still follows its new
\* annotation.
InsertionOnly ==
  idx >= 1 =>
    /\ pc # "panic"
    /\ Len(contents) = Len(original) + offset
    /\ \A k \in DOMAIN inserted :
         /\ 0 <= inserted[k].pos
         /\ inserted[k].pos <= Len(original) + InsertedLen(inserted, k - 1)
    /\ WithoutInserted(contents, inserted, Len(inserted)) = original
    /\ \A i \in 1..Len(inserted) :
         methods[i].docblock # None =>
           LET d == methods[i].docblock[1]
               p == inserted[i].pos + inserted[i].len
           IN SubSeq(contents, p + 1, p + Len(d)) = d

\* a finished run that put a new annotation before the docblock of the second
\* of two methods
InsertionOnlyWitness ==
  /\ pc = "done"
  /\ Len(methods) = 2
  /\ Len(inserted) = 2
  /\ methods[2].docblock # None
  /\ inserted[1].len > 2
  /\ file = contents

====
